---------------------------- MODULE Spec2Model ----------------------------
(***************************************************************************)
(* Model of rmw_dps_cpp's NodeListener (custom_node_info.hpp): the         *)
(* discovery decoder and the registry of discovered nodes.                 *)
(*                                                                         *)
(* A std::string is a sequence of one-character strings.  Positions are    *)
(* 0-based as in C++ and std::string::npos is modelled by npos.            *)
(***************************************************************************)
EXTENDS Integers, Sequences, FiniteSets, TLC

(***************************************************************************)
(* std::string                                                             *)
(***************************************************************************)
npos == -1

\* s.find(p, from) with 0-based positions.
Find(s, p, from) ==
  LET hits == { i \in from .. (Len(s) - Len(p)) :
                  \A k \in 1 .. Len(p) : s[i + k] = p[k] }
  IN  IF hits = {} THEN npos
      ELSE CHOOSE i \in hits : \A j \in hits : i <= j

\* s.substr(pos): the rest of s from 0-based pos (pos <= size).
SubstrFrom(s, pos) == SubSeq(s, pos + 1, Len(s))

\* s.substr(pos, n): n is a size_t, so a negative difference wraps to a huge
\* count and the result runs to the end of s.
Substr(s, pos, n) ==
  IF n < 0 \/ pos + n > Len(s) THEN SubstrFrom(s, pos)
  ELSE SubSeq(s, pos + 1, pos + n)

\* Character codes, for std::string's operator< (the std::map key order).
CharCode ==
  ("&" :> 38) @@ ("," :> 44) @@ ("/" :> 47) @@ ("=" :> 61) @@
  ("T" :> 84) @@ ("U" :> 85) @@ ("_" :> 95) @@
  ("a" :> 97) @@ ("b" :> 98) @@ ("c" :> 99) @@ ("d" :> 100) @@
  ("e" :> 101) @@ ("i" :> 105) @@ ("m" :> 109) @@ ("n" :> 110) @@
  ("p" :> 112) @@ ("s" :> 115) @@ ("t" :> 116) @@ ("u" :> 117) @@
  ("x" :> 120) @@ ("y" :> 121)

RECURSIVE StrLess(_, _)
StrLess(s, t) ==
  IF t = <<>> THEN FALSE
  ELSE IF s = <<>> THEN TRUE
  ELSE IF CharCode[Head(s)] # CharCode[Head(t)]
       THEN CharCode[Head(s)] < CharCode[Head(t)]
  ELSE StrLess(Tail(s), Tail(t))

(***************************************************************************)
(* The discovery markers (rmw_dps_cpp/namespace_prefix.hpp) and the        *)
(* type-list marker of process_topic_info.                                 *)
(***************************************************************************)
dps_uuid_prefix       == <<"_", "d", "i", "d", "_", "=">>
dps_namespace_prefix  == <<"_", "n", "s", "p", "_", "=">>
dps_name_prefix       == <<"_", "n", "a", "m", "e", "_", "=">>
dps_publisher_prefix  == <<"_", "p", "u", "b", "_", "=">>
dps_subscriber_prefix == <<"_", "s", "u", "b", "_", "=">>
types_marker          == <<"&", "t", "y", "p", "e", "s", "=">>
comma                 == <<",">>

(***************************************************************************)
(* NodeListener::Topic and NodeListener::Node                              *)
(***************************************************************************)
EmptyTopic == [topic |-> <<>>, types |-> <<>>]

\* Node() : namespace_("/")
DefaultNode ==
  [name |-> <<>>, namespace_ |-> <<"/">>, publishers |-> <<>>, subscribers |-> <<>>]

TopicEq(a, b) == a.topic = b.topic /\ a.types = b.types

\* std::vector<Topic>::operator==: same size and element-wise Topic::operator==.
TopicsEq(xs, ys) ==
  /\ Len(xs) = Len(ys)
  /\ \A k \in 1 .. Len(xs) : TopicEq(xs[k], ys[k])

\* Faulty variant: an operator== that forgets the subscribers.
NodeEq_IgnoreSubscribers(a, b) ==
  /\ a.name = b.name
  /\ a.namespace_ = b.namespace_
  /\ TopicsEq(a.publishers, b.publishers)

NodeEq(a, b) ==
  /\ a.name = b.name
  /\ a.namespace_ = b.namespace_
  /\ TopicsEq(a.publishers, b.publishers)
  /\ TopicsEq(a.subscribers, b.subscribers)

(***************************************************************************)
(* process_topic_info                                                      *)
(***************************************************************************)
\* The while loop: split topic_str from pos on commas, every segment kept.
RECURSIVE SplitTypes(_, _)
SplitTypes(topic_str, pos) ==
  IF pos = npos THEN <<>>
  ELSE LET end_pos == Find(topic_str, comma, pos)
       IN  IF end_pos # npos
           THEN <<Substr(topic_str, pos, end_pos - pos)>>
                  \o SplitTypes(topic_str, end_pos + 1)
           ELSE <<SubstrFrom(topic_str, pos)>>

\* Faulty variant: the topic name is cut one character too late.
process_topic_info_TopicOneTooLong(topic_str, prefix) ==
  LET p0 == Find(topic_str, prefix, 0)
  IN  IF p0 = npos THEN [found |-> FALSE, topic |-> EmptyTopic]
      ELSE
        LET pos     == p0 + Len(prefix)
            end_pos == Find(topic_str, types_marker, 0)
        IN  IF end_pos # npos
            THEN [found |-> TRUE,
                  topic |-> [topic |-> Substr(topic_str, pos, end_pos - pos + 1),
                             types |-> SplitTypes(topic_str, end_pos + Len(types_marker))]]
            ELSE [found |-> TRUE,
                  topic |-> [topic |-> SubstrFrom(topic_str, pos),
                             types |-> SplitTypes(topic_str, pos)]]

process_topic_info(topic_str, prefix) ==
  LET p0 == Find(topic_str, prefix, 0)
  IN  IF p0 = npos THEN [found |-> FALSE, topic |-> EmptyTopic]
      ELSE
        LET pos     == p0 + Len(prefix)
            end_pos == Find(topic_str, types_marker, 0)
        IN  IF end_pos # npos
            THEN [found |-> TRUE,
                  topic |-> [topic |-> Substr(topic_str, pos, end_pos - pos),
                             types |-> SplitTypes(topic_str, end_pos + Len(types_marker))]]
            ELSE [found |-> TRUE,
                  topic |-> [topic |-> SubstrFrom(topic_str, pos),
                             types |-> SplitTypes(topic_str, pos)]]

(***************************************************************************)
(* The decoding loop of onPublication                                      *)
(***************************************************************************)
\* Faulty variant: a descriptor already in the list is not added again.
DecodeTopic_Deduplicate(acc, topic) ==
  LET pu == Find(topic, dps_uuid_prefix, 0)
      pn == Find(topic, dps_namespace_prefix, 0)
      pm == Find(topic, dps_name_prefix, 0)
      publisher  == process_topic_info(topic, dps_publisher_prefix)
      subscriber == process_topic_info(topic, dps_subscriber_prefix)
      AddNew(list, x) ==
        IF \E k \in 1 .. Len(list) : list[k] = x THEN list ELSE Append(list, x)
  IN  IF pu # npos
        THEN [acc EXCEPT !.uuid = SubstrFrom(topic, pu + Len(dps_uuid_prefix))]
      ELSE IF pn # npos
        THEN [acc EXCEPT !.node.namespace_ =
                           SubstrFrom(topic, pn + Len(dps_namespace_prefix))]
      ELSE IF pm # npos
        THEN [acc EXCEPT !.node.name = SubstrFrom(topic, pm + Len(dps_name_prefix))]
      ELSE IF publisher.found
        THEN [acc EXCEPT !.node.publishers = AddNew(@, publisher.topic)]
      ELSE IF subscriber.found
        THEN [acc EXCEPT !.node.subscribers = AddNew(@, subscriber.topic)]
      ELSE acc

\* Faulty variant: the name marker is tested before the identity marker.
DecodeTopic_NameFirst(acc, topic) ==
  LET pu == Find(topic, dps_uuid_prefix, 0)
      pn == Find(topic, dps_namespace_prefix, 0)
      pm == Find(topic, dps_name_prefix, 0)
      publisher  == process_topic_info(topic, dps_publisher_prefix)
      subscriber == process_topic_info(topic, dps_subscriber_prefix)
  IN  IF pm # npos
        THEN [acc EXCEPT !.node.name = SubstrFrom(topic, pm + Len(dps_name_prefix))]
      ELSE IF pu # npos
        THEN [acc EXCEPT !.uuid = SubstrFrom(topic, pu + Len(dps_uuid_prefix))]
      ELSE IF pn # npos
        THEN [acc EXCEPT !.node.namespace_ =
                           SubstrFrom(topic, pn + Len(dps_namespace_prefix))]
      ELSE IF publisher.found
        THEN [acc EXCEPT !.node.publishers = Append(@, publisher.topic)]
      ELSE IF subscriber.found
        THEN [acc EXCEPT !.node.subscribers = Append(@, subscriber.topic)]
      ELSE acc

\* One iteration of the for loop: acc is [uuid, node].
DecodeTopic(acc, topic) ==
  LET pu == Find(topic, dps_uuid_prefix, 0)
      pn == Find(topic, dps_namespace_prefix, 0)
      pm == Find(topic, dps_name_prefix, 0)
      publisher  == process_topic_info(topic, dps_publisher_prefix)
      subscriber == process_topic_info(topic, dps_subscriber_prefix)
  IN  IF pu # npos
        THEN [acc EXCEPT !.uuid = SubstrFrom(topic, pu + Len(dps_uuid_prefix))]
      ELSE IF pn # npos
        THEN [acc EXCEPT !.node.namespace_ =
                           SubstrFrom(topic, pn + Len(dps_namespace_prefix))]
      ELSE IF pm # npos
        THEN [acc EXCEPT !.node.name = SubstrFrom(topic, pm + Len(dps_name_prefix))]
      ELSE IF publisher.found
        THEN [acc EXCEPT !.node.publishers = Append(@, publisher.topic)]
      ELSE IF subscriber.found
        THEN [acc EXCEPT !.node.subscribers = Append(@, subscriber.topic)]
      ELSE acc

RECURSIVE DecodeFrom(_, _, _)
DecodeFrom(acc, topics, i) ==
  IF i > Len(topics) THEN acc
  ELSE DecodeFrom(DecodeTopic(acc, topics[i]), topics, i + 1)

\* std::string uuid; Node node; for (...) {...}
Decode(topics) == DecodeFrom([uuid |-> <<>>, node |-> DefaultNode], topics, 1)

(***************************************************************************)
(* The registry's std::map and the three read operations                   *)
(***************************************************************************)
\* The keys of a std::map<std::string, Node> in iteration order.
RECURSIVE KeysInOrder(_)
KeysInOrder(S) ==
  IF S = {} THEN <<>>
  ELSE LET m == CHOOSE x \in S : \A y \in S \ {x} : StrLess(x, y)
       IN  <<m>> \o KeysInOrder(S \ {m})

\* discovered_nodes_[uuid] as an rvalue: inserts a default Node when absent.
MapSubscript(table, key) ==
  IF key \in DOMAIN table THEN table ELSE (key :> DefaultNode) @@ table

\* Faulty variant: an assignment that keeps the stored name when the new one
\* is empty (a field-level merge).
MapAssign_KeepOldName(table, key, val) ==
  LET t0  == MapSubscript(table, key)
      new == IF val.name = <<>> THEN [val EXCEPT !.name = t0[key].name] ELSE val
  IN  [t0 EXCEPT ![key] = new]

\* Faulty variant: storing a default record erases the entry.
MapAssign_EraseDefault(table, key, val) ==
  IF val = DefaultNode
    THEN [i \in DOMAIN table \ {key} |-> table[i]]
    ELSE [MapSubscript(table, key) EXCEPT ![key] = val]

\* Faulty variant: emplace, which leaves an entry that is already there.
MapAssign_Emplace(table, key, val) ==
  IF key \in DOMAIN table THEN table ELSE (key :> val) @@ table

\* discovered_nodes_[uuid] = node
MapAssign(table, key, val) == [MapSubscript(table, key) EXCEPT ![key] = val]

\* Faulty variant: the last element of the vector is left default-constructed.
get_discovered_nodes_DropLast(table) ==
  LET keys == KeysInOrder(DOMAIN table)
  IN  [i \in 1 .. Len(keys) |->
         IF i = Len(keys) /\ i > 1 THEN DefaultNode ELSE table[keys[i]]]

\* std::vector<Node> nodes(size()); for (auto it : map) nodes[i++] = it.second;
get_discovered_nodes(table) ==
  LET keys == KeysInOrder(DOMAIN table)
  IN  [i \in 1 .. Len(keys) |-> table[keys[i]]]

\* std::count_if(v.begin(), v.end(), [](const Topic & x) { return x.topic == topic_name; })
RECURSIVE count_if(_, _)
count_if(v, topic_name) ==
  IF v = <<>> THEN 0
  ELSE (IF Head(v).topic = topic_name THEN 1 ELSE 0) + count_if(Tail(v), topic_name)

RECURSIVE CountOver(_, _, _, _)
CountOver(table, keys, field, topic_name) ==
  IF keys = <<>> THEN 0
  ELSE count_if(table[Head(keys)][field], topic_name)
         + CountOver(table, Tail(keys), field, topic_name)

\* Faulty variant: a node counts once however many matching publishers it has.
count_publishers_AtMostOnePerNode(table, topic_name) ==
  Cardinality({ k \in DOMAIN table :
                  count_if(table[k].publishers, topic_name) > 0 })

count_publishers(table, topic_name) ==
  CountOver(table, KeysInOrder(DOMAIN table), "publishers", topic_name)

count_subscribers(table, topic_name) ==
  CountOver(table, KeysInOrder(DOMAIN table), "subscribers", topic_name)

(***************************************************************************)
(* Inputs: the announcements delivered and the topic names queried         *)
(***************************************************************************)
NumThreads == 2

did(x)  == dps_uuid_prefix \o x
nsp(x)  == dps_namespace_prefix \o x
name(x) == dps_name_prefix \o x
pub(x)  == dps_publisher_prefix \o x
sub(x)  == dps_subscriber_prefix \o x
typed(topic, types) == topic \o types_marker \o types

AnnA_Name  == << did(<<"a">>), name(<<"n">>) >>
AnnA_Sub   == << did(<<"a">>), name(<<"n">>), sub(<<"t">>) >>
AnnA_Bare  == << did(<<"a">>) >>
AnnB_Topics == << did(<<"b">>), nsp(<<"/", "x">>),
                  pub(typed(<<"t">>, <<"T">>)), pub(typed(<<"t">>, <<"T", ",", "U">>)),
                  sub(typed(<<"t">>, <<"T", ",">>)) >>
Ann_NoId   == << nsp(<<"/", "x">>), name(<<"n">>), pub(<<"t">>), sub(<<"t">>) >>
Ann_EmptyId == << did(<<"a">>), name(<<"n">>), did(<<>>) >>

Announcements ==
  { AnnA_Name, AnnA_Sub, AnnA_Bare, AnnB_Topics, Ann_NoId, Ann_EmptyId }

TopicNames == { <<"t">>, <<"u">> }

\* The identities the announcements can carry.
TalkerId == <<"a", "b", "c", "1", "2", "3">>

Identities == { <<"a">>, <<"b">>, <<"c">>, TalkerId }

NoTopics == <<>>

\* The identities and the announcements of the writers of the scenario.
ScenarioIds == << <<"a">>, <<"b">>, <<"c">> >>

ScenarioAnnouncements(w) ==
  { << did(ScenarioIds[w]) >>,
    << nsp(<<"/", "x">>), did(ScenarioIds[w]),
       pub(typed(<<"t">>, <<"T">>)), sub(<<"t">>) >> }

\* The inputs of the decoder on its own: every announcement of at most
\* MaxCodecLen of these topic strings, and the announcement of a talker.
MaxCodecLen == 2

CodecTopics ==
  { did(<<"a">>),
    did(<<>>),
    nsp(<<"/", "x">>),
    name(<<"n">>),
    name(<<"n">>) \o did(<<"b">>),
    pub(<<"t">>),
    pub(<<"t", ",", "u">>),
    pub(typed(<<"t">>, <<"T">>)),
    pub(typed(<<"t">>, <<"T", ",">>)),
    pub(typed(<<"t">>, <<>>)),
    types_marker \o pub(typed(<<"t">>, <<"T">>)),
    sub(typed(<<"u">>, <<"T", ",", "U">>)),
    sub(<<"u">>) \o pub(<<"t">>),
    <<"x">> }

Ann_Talker ==
  << did(TalkerId),
     nsp(<<"/", "n", "s">>),
     name(<<"t", "a", "l", "k", "e", "r">>),
     pub(typed(<<"c", "h", "a", "t", "t", "e", "r">>,
               <<"s", "t", "d", "_", "m", "s", "g", "s", "/",
                 "S", "t", "r", "i", "n", "g">>)) >>

CodecAnnouncements ==
  UNION { [1 .. k -> CodecTopics] : k \in 0 .. MaxCodecLen } \cup { Ann_Talker }

NoArg    == [topics |-> NoTopics, topic_name |-> <<>>]
NoResult == [nodes |-> <<>>, count |-> 0]
NoLocals == [uuid |-> <<>>, node |-> DefaultNode, old_node |-> DefaultNode]

(***************************************************************************)
(* State                                                                   *)
(***************************************************************************)
VARIABLES
  discovered_nodes_,  \* std::map<std::string, Node>
  mutex_,             \* the set of threads holding mutex_ (std::mutex: at most one)
  pc,                 \* per thread: where it is in its current call
  op,                 \* per thread: the operation it is calling
  arg,                \* per thread: the topics of pub, or topic_name
  locals,             \* per thread: onPublication's uuid, node, old_node
  ret,                \* per thread: what rmw_trigger_guard_condition returned
  triggers,           \* per thread: triggers of the guard condition in this call
  result,             \* per thread: the value the call returns
  pre,                \* history: discovered_nodes_ when the current holder locked
  lastAnn,            \* history: per identity, the last completed announcement
  fresh               \* history: t holds a snapshot and no onPublication completed since

vars == << discovered_nodes_, mutex_, pc, op, arg, locals, ret, triggers,
           result, pre, lastAnn, fresh >>

Threads == DOMAIN pc

InitThreads(T) ==
  /\ discovered_nodes_ = <<>>
  /\ mutex_ = {}
  /\ pc = [t \in T |-> "idle"]
  /\ op = [t \in T |-> "none"]
  /\ arg = [t \in T |-> NoArg]
  /\ locals = [t \in T |-> NoLocals]
  /\ ret = [t \in T |-> "none"]
  /\ triggers = [t \in T |-> 0]
  /\ result = [t \in T |-> NoResult]
  /\ pre = <<>>
  /\ lastAnn = [i \in Identities |-> NoTopics]
  /\ fresh = [t \in T |-> FALSE]

\* explicit NodeListener(graph_guard_condition): an empty map, a free mutex.
Init == InitThreads(1 .. NumThreads)

(***************************************************************************)
(* Calls                                                                   *)
(***************************************************************************)
Call(t, o, a) ==
  /\ pc[t] = "idle"
  /\ pc' = [pc EXCEPT ![t] = "lock"]
  /\ op' = [op EXCEPT ![t] = o]
  /\ arg' = [arg EXCEPT ![t] = a]
  /\ UNCHANGED << discovered_nodes_, mutex_, locals, ret, triggers, result, pre,
                  lastAnn, fresh >>

onPublication_Call(t) ==
  \E topics \in Announcements :
    Call(t, "onPublication", [NoArg EXCEPT !.topics = topics])

get_discovered_nodes_Call(t) == Call(t, "get_discovered_nodes", NoArg)

count_publishers_Call(t) ==
  \E n \in TopicNames : Call(t, "count_publishers", [NoArg EXCEPT !.topic_name = n])

count_subscribers_Call(t) ==
  \E n \in TopicNames : Call(t, "count_subscribers", [NoArg EXCEPT !.topic_name = n])

(***************************************************************************)
(* std::lock_guard<std::mutex> lock(mutex_)                                *)
(***************************************************************************)
\* Faulty variant: a lock that never waits.
TryLock_NoExclusion(t) == TRUE

\* std::mutex::lock returns only when no thread holds the mutex.
TryLock(t) == mutex_ = {}

Lock(t) ==
  /\ pc[t] = "lock"
  /\ TryLock(t)
  /\ mutex_' = {t}
  /\ pc' = [pc EXCEPT ![t] = IF op[t] = "onPublication" THEN "decode" ELSE "read"]
  /\ pre' = discovered_nodes_
  /\ UNCHANGED << discovered_nodes_, op, arg, locals, ret, triggers, result,
                  lastAnn, fresh >>

\* The lock_guard's destructor at the end of the function, and the return.
Unlock(t) ==
  /\ pc[t] = "unlock"
  /\ mutex_' = {}
  /\ pc' = [pc EXCEPT ![t] = "done"]
  /\ locals' = [locals EXCEPT ![t] = NoLocals]
  /\ pre' = <<>>
  /\ IF op[t] = "onPublication" /\ locals[t].uuid # <<>>
       THEN /\ lastAnn' = [lastAnn EXCEPT ![locals[t].uuid] = arg[t].topics]
            /\ fresh' = [u \in Threads |-> FALSE]
       ELSE /\ fresh' = [fresh EXCEPT ![t] = op[t] = "get_discovered_nodes"]
            /\ UNCHANGED lastAnn
  /\ arg' = [arg EXCEPT ![t] = NoArg]
  /\ ret' = [ret EXCEPT ![t] = "none"]
  /\ triggers' = [triggers EXCEPT ![t] = 0]
  /\ UNCHANGED << discovered_nodes_, op, result >>

\* The caller takes the returned value; the thread is free for its next call.
Return(t) ==
  /\ pc[t] = "done"
  /\ pc' = [pc EXCEPT ![t] = "idle"]
  /\ op' = [op EXCEPT ![t] = "none"]
  /\ result' = [result EXCEPT ![t] = NoResult]
  /\ fresh' = [fresh EXCEPT ![t] = FALSE]
  /\ UNCHANGED << discovered_nodes_, mutex_, arg, locals, ret, triggers, pre,
                  lastAnn >>

(***************************************************************************)
(* onPublication, inside the lock                                          *)
(***************************************************************************)
\* std::string uuid; Node node; and the for loop over the topics of pub.
onPublication_Decode(t) ==
  /\ pc[t] = "decode"
  /\ LET d == Decode(arg[t].topics)
     IN  locals' = [locals EXCEPT ![t].uuid = d.uuid, ![t].node = d.node]
  /\ pc' = [pc EXCEPT ![t] = "lookup"]
  /\ UNCHANGED << discovered_nodes_, mutex_, op, arg, ret, triggers, result, pre,
                  lastAnn, fresh >>

\* Faulty variant: the emptiness test is missing.
UuidEmpty_Never(uuid) == FALSE

\* uuid.empty()
UuidEmpty(uuid) == uuid = <<>>

\* Faulty variant: old_node is default-constructed instead of read from the map.
LookupOld_Default(table, uuid) == DefaultNode

\* The value copied by  Node old_node = listener->discovered_nodes_[uuid];
LookupOld(table, uuid) == MapSubscript(table, uuid)[uuid]

\* Faulty variant: with an empty uuid the function is left with the lock held.
onPublication_Lookup_ReturnLocked(t) ==
  /\ pc[t] = "lookup"
  /\ IF UuidEmpty(locals[t].uuid)
       THEN /\ pc' = [pc EXCEPT ![t] = "done"]
            /\ UNCHANGED << discovered_nodes_, locals >>
       ELSE /\ locals' = [locals EXCEPT ![t].old_node =
                            LookupOld(discovered_nodes_, locals[t].uuid)]
            /\ discovered_nodes_' = MapSubscript(discovered_nodes_, locals[t].uuid)
            /\ pc' = [pc EXCEPT ![t] = "store"]
  /\ UNCHANGED << mutex_, op, arg, ret, triggers, result, pre, lastAnn,
                  fresh >>

\* if (!uuid.empty()) { Node old_node = listener->discovered_nodes_[uuid];
onPublication_Lookup(t) ==
  /\ pc[t] = "lookup"
  /\ IF UuidEmpty(locals[t].uuid)
       THEN /\ pc' = [pc EXCEPT ![t] = "unlock"]
            /\ UNCHANGED << discovered_nodes_, locals >>
       ELSE /\ locals' = [locals EXCEPT ![t].old_node =
                            LookupOld(discovered_nodes_, locals[t].uuid)]
            /\ discovered_nodes_' = MapSubscript(discovered_nodes_, locals[t].uuid)
            /\ pc' = [pc EXCEPT ![t] = "store"]
  /\ UNCHANGED << mutex_, op, arg, ret, triggers, result, pre, lastAnn,
                  fresh >>

\* listener->discovered_nodes_[uuid] = node;
onPublication_Store(t) ==
  /\ pc[t] = "store"
  /\ discovered_nodes_' = MapAssign(discovered_nodes_, locals[t].uuid, locals[t].node)
  /\ pc' = [pc EXCEPT ![t] = "signal"]
  /\ UNCHANGED << mutex_, op, arg, locals, ret, triggers, result, pre, lastAnn, fresh >>

\* Faulty variant: a failed trigger puts the old record back.
TableAfterTrigger_RollBack(t, r) ==
  IF r = "RMW_RET_OK" THEN discovered_nodes_
  ELSE [discovered_nodes_ EXCEPT ![locals[t].uuid] = locals[t].old_node]

\* Neither outcome of rmw_trigger_guard_condition touches the map: a failure
\* is logged and nothing else.
TableAfterTrigger(t, r) == discovered_nodes_

\* if (!(old_node == node)) { ret = rmw_trigger_guard_condition(...); ... }
onPublication_Trigger(t) ==
  /\ pc[t] = "signal"
  /\ ~NodeEq(locals[t].old_node, locals[t].node)
  /\ \E r \in {"RMW_RET_OK", "RMW_RET_ERROR"} :
       /\ ret' = [ret EXCEPT ![t] = r]
       /\ discovered_nodes_' = TableAfterTrigger(t, r)
  /\ triggers' = [triggers EXCEPT ![t] = @ + 1]
  /\ pc' = [pc EXCEPT ![t] = "unlock"]
  /\ UNCHANGED << mutex_, op, arg, locals, result, pre, lastAnn, fresh >>

onPublication_NoTrigger(t) ==
  /\ pc[t] = "signal"
  /\ NodeEq(locals[t].old_node, locals[t].node)
  /\ pc' = [pc EXCEPT ![t] = "unlock"]
  /\ UNCHANGED << discovered_nodes_, mutex_, op, arg, locals, ret, triggers,
                  result, pre, lastAnn, fresh >>

(***************************************************************************)
(* The read operations, inside the lock                                    *)
(***************************************************************************)
Read(t) ==
  /\ pc[t] = "read"
  /\ result' = [result EXCEPT ![t] =
       CASE op[t] = "get_discovered_nodes" ->
              [NoResult EXCEPT !.nodes = get_discovered_nodes(discovered_nodes_)]
         [] op[t] = "count_publishers" ->
              [NoResult EXCEPT !.count =
                 count_publishers(discovered_nodes_, arg[t].topic_name)]
         [] op[t] = "count_subscribers" ->
              [NoResult EXCEPT !.count =
                 count_subscribers(discovered_nodes_, arg[t].topic_name)]]
  /\ pc' = [pc EXCEPT ![t] = "unlock"]
  /\ UNCHANGED << discovered_nodes_, mutex_, op, arg, locals, ret, triggers, pre,
                  lastAnn, fresh >>

(***************************************************************************)
(* Specification: any thread may call any operation at any time            *)
(***************************************************************************)
Next ==
  \/ \E t \in Threads : onPublication_Call(t)
  \/ \E t \in Threads : get_discovered_nodes_Call(t)
  \/ \E t \in Threads : count_publishers_Call(t)
  \/ \E t \in Threads : count_subscribers_Call(t)
  \/ \E t \in Threads : Lock(t)
  \/ \E t \in Threads : onPublication_Decode(t)
  \/ \E t \in Threads : onPublication_Lookup(t)
  \/ \E t \in Threads : onPublication_Store(t)
  \/ \E t \in Threads : onPublication_Trigger(t)
  \/ \E t \in Threads : onPublication_NoTrigger(t)
  \/ \E t \in Threads : Read(t)
  \/ \E t \in Threads : Unlock(t)
  \/ \E t \in Threads : Return(t)

Spec == Init /\ [][Next]_vars

(***************************************************************************)
(* Vocabulary of the properties                                            *)
(***************************************************************************)
InLock == {"decode", "lookup", "store", "signal", "read", "unlock"}

\* t has run the body of onPublication and still holds the lock.
Announced(t) == pc[t] = "unlock" /\ op[t] = "onPublication"

\* The identity and the record an announcement decodes to (NoTopics, which
\* stands for "no announcement yet" in lastAnn, included).
Decoding ==
  [a \in Announcements \cup {NoTopics}
          \cup UNION {ScenarioAnnouncements(w) : w \in 1 .. Len(ScenarioIds)} |->
     Decode(a)]

IdOf(topics)     == Decoding[topics].uuid
RecordOf(topics) == Decoding[topics].node

\* The record the map held for identity i when the holder locked; the default
\* record when it held none.
PreRecord(i) == IF i \in DOMAIN pre THEN pre[i] ELSE DefaultNode

\* A sequence as a multiset.
BagOf(seq) ==
  [x \in {seq[k] : k \in 1 .. Len(seq)} |->
     Cardinality({k \in 1 .. Len(seq) : seq[k] = x})]

\* The descriptors of one kind in a table, as (identity, index) pairs.
Descriptors(table, field) ==
  UNION { { <<i, k>> : k \in 1 .. Len(table[i][field]) } : i \in DOMAIN table }

Matching(table, field, topic_name) ==
  Cardinality({ d \in Descriptors(table, field) :
                  table[d[1]][field][d[2]].topic = topic_name })

\* The table as the completed announcements define it.
Committed ==
  [i \in {j \in Identities : lastAnn[j] # NoTopics} |-> RecordOf(lastAnn[i])]

NoIdentityMarker(topics) ==
  \A k \in 1 .. Len(topics) : Find(topics[k], dps_uuid_prefix, 0) = npos

(***************************************************************************)
(* C1: an announcement with a non-empty identity triggers the guard        *)
(* condition exactly once when the record it decodes to differs from the   *)
(* record stored for that identity before the call (the default record     *)
(* when there was none), and not at all when the two are equal.            *)
(***************************************************************************)
C1_TriggerIffRecordDiffers ==
  \A t \in Threads :
    (Announced(t) /\ IdOf(arg[t].topics) # <<>>)
      => triggers[t] =
           (IF RecordOf(arg[t].topics) = PreRecord(IdOf(arg[t].topics)) THEN 0 ELSE 1)

\* A stored record has been replaced by one that differs only in its
\* subscribers, and the guard condition was triggered.
C1_Witness ==
  \E t \in Threads :
    /\ Announced(t)
    /\ IdOf(arg[t].topics) \in DOMAIN pre
    /\ RecordOf(arg[t].topics) # PreRecord(IdOf(arg[t].topics))
    /\ [RecordOf(arg[t].topics) EXCEPT !.subscribers = <<>>]
         = [PreRecord(IdOf(arg[t].topics)) EXCEPT !.subscribers = <<>>]
    /\ triggers[t] = 1

(***************************************************************************)
(* C2: onPublication triggers the guard condition if and only if the       *)
(* result of get_discovered_nodes, as a multiset of records, differs       *)
(* between just before and just after the call.                            *)
(***************************************************************************)
C2_TriggerIffSnapshotChanges ==
  \A t \in Threads :
    Announced(t)
      => ((triggers[t] > 0)
            <=> BagOf(get_discovered_nodes(discovered_nodes_))
                  # BagOf(get_discovered_nodes(pre)))

(***************************************************************************)
(* C3: delivering again the announcement that was the last one completed   *)
(* for its identity triggers nothing and leaves the table as it was.       *)
(***************************************************************************)
C3_SecondDeliveryIdempotent ==
  \A t \in Threads :
    (/\ Announced(t)
     /\ IdOf(arg[t].topics) # <<>>
     /\ lastAnn[IdOf(arg[t].topics)] = arg[t].topics)
      => (triggers[t] = 0 /\ discovered_nodes_ = pre)

\* A second delivery of an announcement with a name and a subscriber.
C3_Witness ==
  \E t \in Threads :
    /\ Announced(t)
    /\ arg[t].topics = AnnA_Sub
    /\ lastAnn[<<"a">>] = AnnA_Sub
    /\ <<"b">> \in DOMAIN discovered_nodes_

(***************************************************************************)
(* C4: an announcement none of whose topic strings contains the identity   *)
(* marker changes nothing: the table is the one the call found, no         *)
(* trigger, and the three read operations give what they gave before.      *)
(***************************************************************************)
C4_NoIdentityNoEffect ==
  \A t \in Threads :
    (/\ op[t] = "onPublication"
     /\ pc[t] \in InLock
     /\ NoIdentityMarker(arg[t].topics))
      => /\ discovered_nodes_ = pre
         /\ triggers[t] = 0
         /\ get_discovered_nodes(discovered_nodes_) = get_discovered_nodes(pre)
         /\ \A n \in TopicNames :
              /\ count_publishers(discovered_nodes_, n) = count_publishers(pre, n)
              /\ count_subscribers(discovered_nodes_, n) = count_subscribers(pre, n)

\* An announcement with a namespace, a name, a publisher and a subscriber
\* but no identity has been processed on a table of two nodes.
C4_Witness ==
  \E t \in Threads :
    /\ Announced(t)
    /\ arg[t].topics = Ann_NoId
    /\ Cardinality(DOMAIN discovered_nodes_) = 2

(***************************************************************************)
(* C5: between calls the table holds, for each identity announced so far,  *)
(* exactly the decoding of the last completed announcement for it and      *)
(* nothing of an earlier one; an announcement leaves the records of the    *)
(* other identities as they were.                                          *)
(***************************************************************************)
C5_FullReplace ==
  /\ mutex_ = {} => discovered_nodes_ = Committed
  /\ \A t \in Threads :
       (Announced(t) /\ IdOf(arg[t].topics) # <<>>)
         => /\ DOMAIN discovered_nodes_ = DOMAIN pre \cup {IdOf(arg[t].topics)}
            /\ discovered_nodes_[IdOf(arg[t].topics)] = RecordOf(arg[t].topics)
            /\ \A j \in DOMAIN pre \ {IdOf(arg[t].topics)} :
                 discovered_nodes_[j] = pre[j]

\* A record with a name and a subscriber has been replaced by the decoding
\* of an announcement that carries neither, beside another node's record.
C5_Witness ==
  \E t \in Threads :
    /\ Announced(t)
    /\ arg[t].topics = AnnA_Bare
    /\ <<"a">> \in DOMAIN pre
    /\ pre[<<"a">>].name # <<>>
    /\ pre[<<"a">>].subscribers # <<>>
    /\ discovered_nodes_[<<"a">>] = DefaultNode
    /\ <<"b">> \in DOMAIN pre

(***************************************************************************)
(* C6: count_publishers(T) is the number of publisher descriptors, over    *)
(* all records of the table, whose topic name is T, duplicates counted     *)
(* one by one and whatever their types; count_subscribers(T) likewise      *)
(* over subscriber descriptors.                                            *)
(***************************************************************************)
C6_CountsMatchDescriptors ==
  \A t \in Threads :
    pc[t] = "unlock" =>
      /\ op[t] = "count_publishers" =>
           result[t].count = Matching(discovered_nodes_, "publishers", arg[t].topic_name)
      /\ op[t] = "count_subscribers" =>
           result[t].count = Matching(discovered_nodes_, "subscribers", arg[t].topic_name)

\* A node publishing the counted topic twice, with different type lists.
C6_Witness ==
  \E t \in Threads :
    /\ pc[t] = "unlock"
    /\ op[t] = "count_publishers"
    /\ result[t].count = 2
    /\ \E i \in DOMAIN discovered_nodes_ :
         /\ Len(discovered_nodes_[i].publishers) = 2
         /\ discovered_nodes_[i].publishers[1].types
              # discovered_nodes_[i].publishers[2].types

(***************************************************************************)
(* C7: get_discovered_nodes returns one record per identity of the table,  *)
(* the current ones; two snapshots with no announcement completed between  *)
(* them are equal; a snapshot the caller holds is not changed by anything  *)
(* that happens afterwards.                                                *)
(***************************************************************************)
HasSnapshot(t) == op[t] = "get_discovered_nodes" /\ pc[t] \in {"unlock", "done"}

TableBag ==
  [x \in {discovered_nodes_[i] : i \in DOMAIN discovered_nodes_} |->
     Cardinality({i \in DOMAIN discovered_nodes_ : discovered_nodes_[i] = x})]

C7_SnapshotAtReturn ==
  /\ \A t \in Threads :
       (pc[t] = "unlock" /\ op[t] = "get_discovered_nodes")
         => /\ Len(result[t].nodes) = Cardinality(DOMAIN discovered_nodes_)
            /\ BagOf(result[t].nodes) = TableBag
  /\ \A t, u \in Threads :
       (fresh[t] /\ HasSnapshot(u) /\ (fresh[u] \/ pc[u] = "unlock"))
         => result[t].nodes = result[u].nodes

C7_SnapshotKept ==
  \A t \in Threads : (pc[t] = "done" /\ pc'[t] = "done") => result'[t] = result[t]

\* C7: a snapshot is a whole copy of the table when returned, equal to any
\* other taken with no announcement completed between, and kept as it is.
C7_SnapshotIsOwnedCopy == []C7_SnapshotAtReturn /\ [][C7_SnapshotKept]_vars

\* A thread holds a snapshot of two records while the table has moved on,
\* and another thread has just taken a snapshot of the new table.
C7_Witness ==
  \E t, u \in Threads :
    /\ pc[t] = "done" /\ op[t] = "get_discovered_nodes" /\ ~fresh[t]
    /\ Len(result[t].nodes) = 2
    /\ pc[u] = "unlock" /\ op[u] = "get_discovered_nodes"
    /\ Len(result[u].nodes) = 2
    /\ result[u].nodes # result[t].nodes

(***************************************************************************)
(* C9: at most one operation is inside its locked section; a reader        *)
(* inside it sees the table exactly as the completed announcements left    *)
(* it, and what it returns is the value of its operation on that table.    *)
(***************************************************************************)
C9_MutualExclusion ==
  /\ Cardinality({t \in Threads : pc[t] \in InLock}) <= 1
  /\ \A t \in Threads : pc[t] \in InLock => mutex_ = {t}
  /\ \A t \in Threads :
       (pc[t] \in {"read", "unlock"} /\ op[t] # "onPublication")
         => discovered_nodes_ = Committed
  /\ \A t \in Threads :
       pc[t] = "unlock" =>
         /\ op[t] = "get_discovered_nodes" =>
              result[t].nodes = get_discovered_nodes(Committed)
         /\ op[t] = "count_publishers" =>
              result[t].count = count_publishers(Committed, arg[t].topic_name)
         /\ op[t] = "count_subscribers" =>
              result[t].count = count_subscribers(Committed, arg[t].topic_name)

\* A reader has read inside the lock while an announcement for a new
\* identity waits for the lock.
C9_Witness ==
  \E t, u \in Threads :
    /\ pc[t] = "unlock" /\ op[t] = "get_discovered_nodes"
    /\ Len(result[t].nodes) = 1
    /\ pc[u] = "lock" /\ op[u] = "onPublication"
    /\ IdOf(arg[u].topics) # <<>>
    /\ IdOf(arg[u].topics) \notin DOMAIN discovered_nodes_

(***************************************************************************)
(* C10: when the trigger fails the table still holds the newly decoded     *)
(* record, the call goes on to release the lock and return nothing to its  *)
(* caller, and a later delivery of the same announcement triggers nothing. *)
(***************************************************************************)
C10_TriggerFailureNotFatal ==
  \A t \in Threads :
    /\ (pc[t] = "unlock" /\ ret[t] = "RMW_RET_ERROR")
         => /\ op[t] = "onPublication"
            /\ IdOf(arg[t].topics) \in DOMAIN discovered_nodes_
            /\ discovered_nodes_[IdOf(arg[t].topics)] = RecordOf(arg[t].topics)
            /\ ENABLED Unlock(t)
    /\ (pc[t] = "done" /\ op[t] = "onPublication")
         => (t \notin mutex_ /\ result[t] = NoResult /\ ret[t] = "none")
    /\ (/\ Announced(t)
        /\ IdOf(arg[t].topics) # <<>>
        /\ lastAnn[IdOf(arg[t].topics)] = arg[t].topics)
         => ret[t] = "none"

\* The trigger has failed for an announcement that replaced a stored record.
C10_Witness ==
  \E t \in Threads :
    /\ pc[t] = "unlock"
    /\ ret[t] = "RMW_RET_ERROR"
    /\ IdOf(arg[t].topics) \in DOMAIN pre
    /\ pre[IdOf(arg[t].topics)] # RecordOf(arg[t].topics)

(***************************************************************************)
(* Scenario: NumWriters threads each deliver one announcement, with        *)
(* pairwise distinct identities, to an empty registry while NumReaders     *)
(* threads keep calling get_discovered_nodes.                              *)
(***************************************************************************)
NumWriters == 2
NumReaders == 2

Writers == 1 .. NumWriters
Readers == (NumWriters + 1) .. (NumWriters + NumReaders)

InitScenario == NumWriters <= Len(ScenarioIds) /\ InitThreads(Writers \cup Readers)

Scenario_Announce(t) ==
  /\ t \in Writers
  /\ \E topics \in ScenarioAnnouncements(t) :
       Call(t, "onPublication", [NoArg EXCEPT !.topics = topics])

Scenario_Snapshot(t) == t \in Readers /\ get_discovered_nodes_Call(t)

Scenario_Return(t) == t \in Readers /\ Return(t)

NextScenario ==
  \/ \E t \in Threads : Scenario_Announce(t)
  \/ \E t \in Threads : Scenario_Snapshot(t)
  \/ \E t \in Threads : Lock(t)
  \/ \E t \in Threads : onPublication_Decode(t)
  \/ \E t \in Threads : onPublication_Lookup(t)
  \/ \E t \in Threads : onPublication_Store(t)
  \/ \E t \in Threads : onPublication_Trigger(t)
  \/ \E t \in Threads : onPublication_NoTrigger(t)
  \/ \E t \in Threads : Read(t)
  \/ \E t \in Threads : Unlock(t)
  \/ \E t \in Threads : Scenario_Return(t)

SpecScenario == InitScenario /\ [][NextScenario]_vars

(***************************************************************************)
(* C8: once every writer has returned, the table has exactly one entry     *)
(* per writer, the whole decoding of that writer's announcement; every     *)
(* snapshot a reader gets is the table of the whole decodings of some of   *)
(* the announcements delivered so far.                                     *)
(***************************************************************************)
\* The writers that have called, and the announcement each delivers.
Called == {w \in Writers : pc[w] # "idle"}

AnnouncementOf(w) ==
  IF pc[w] = "done" THEN lastAnn[ScenarioIds[w]] ELSE arg[w].topics

TableOf(S) ==
  [i \in {ScenarioIds[w] : w \in S} |->
     RecordOf(AnnouncementOf(CHOOSE w \in S : ScenarioIds[w] = i))]

\* C8: no insert is lost and no snapshot holds a record that is not the whole
\* decoding of its identity's announcement.
C8_NoLostInsertNoTornSnapshot ==
  /\ (\A w \in Writers : pc[w] = "done")
       => /\ Cardinality(DOMAIN discovered_nodes_) = NumWriters
          /\ \A w \in Writers :
               /\ lastAnn[ScenarioIds[w]] \in ScenarioAnnouncements(w)
               /\ ScenarioIds[w] \in DOMAIN discovered_nodes_
               /\ discovered_nodes_[ScenarioIds[w]] = RecordOf(lastAnn[ScenarioIds[w]])
  /\ \A r \in Readers :
       HasSnapshot(r)
         => \E S \in SUBSET Called :
              result[r].nodes = get_discovered_nodes(TableOf(S))

\* Every writer has returned, each having stored a record that is not the
\* default, and a reader still holds a snapshot taken after the first one.
C8_Witness ==
  /\ \A w \in Writers :
       pc[w] = "done" /\ discovered_nodes_[ScenarioIds[w]] # DefaultNode
  /\ \E r \in Readers :
       /\ pc[r] = "done" /\ op[r] = "get_discovered_nodes"
       /\ Len(result[r].nodes) = 1

(***************************************************************************)
(* The decoder on its own: one onPublication call, on a new registry,      *)
(* with any of the announcements of CodecAnnouncements.                    *)
(***************************************************************************)
InitCodec ==
  \E topics \in CodecAnnouncements :
    /\ discovered_nodes_ = <<>>
    /\ mutex_ = {}
    /\ pc = [t \in {1} |-> "lock"]
    /\ op = [t \in {1} |-> "onPublication"]
    /\ arg = [t \in {1} |-> [NoArg EXCEPT !.topics = topics]]
    /\ locals = [t \in {1} |-> NoLocals]
    /\ ret = [t \in {1} |-> "none"]
    /\ triggers = [t \in {1} |-> 0]
    /\ result = [t \in {1} |-> NoResult]
    /\ pre = <<>>
    /\ lastAnn = [i \in Identities |-> NoTopics]
    /\ fresh = [t \in {1} |-> FALSE]

NextCodec ==
  \/ \E t \in Threads : Lock(t)
  \/ \E t \in Threads : onPublication_Decode(t)
  \/ \E t \in Threads : onPublication_Lookup(t)
  \/ \E t \in Threads : onPublication_Store(t)
  \/ \E t \in Threads : onPublication_Trigger(t)
  \/ \E t \in Threads : onPublication_NoTrigger(t)
  \/ \E t \in Threads : Unlock(t)

SpecCodec == InitCodec /\ [][NextCodec]_vars

(***************************************************************************)
(* The announcement format in the words of the specification: markers,     *)
(* remainders, roles and comma-separated lists, written without the        *)
(* decoder's operators.                                                    *)
(***************************************************************************)
Occurrences(s, p) ==
  { i \in 1 .. Len(s) :
      i + Len(p) - 1 <= Len(s) /\ SubSeq(s, i, i + Len(p) - 1) = p }

Has(s, p) == Occurrences(s, p) # {}

FirstOf(s, p) ==
  CHOOSE i \in Occurrences(s, p) : \A j \in Occurrences(s, p) : i <= j

\* The text after, and before, the first occurrence of p in s.
RemainderAfter(s, p) == SubSeq(s, FirstOf(s, p) + Len(p), Len(s))
TextBefore(s, p)     == SubSeq(s, 1, FirstOf(s, p) - 1)

RECURSIVE SplitOnCommas(_)
SplitOnCommas(s) ==
  IF Has(s, comma)
    THEN <<TextBefore(s, comma)>> \o SplitOnCommas(RemainderAfter(s, comma))
    ELSE <<s>>

RECURSIVE JoinWithCommas(_)
JoinWithCommas(list) ==
  IF list = <<>> THEN <<>>
  ELSE IF Len(list) = 1 THEN list[1]
  ELSE list[1] \o comma \o JoinWithCommas(Tail(list))

\* The five markers in the order in which a topic string is tested for them.
MarkerOrder ==
  << [role |-> "identity",   marker |-> dps_uuid_prefix],
     [role |-> "namespace",  marker |-> dps_namespace_prefix],
     [role |-> "name",       marker |-> dps_name_prefix],
     [role |-> "publisher",  marker |-> dps_publisher_prefix],
     [role |-> "subscriber", marker |-> dps_subscriber_prefix] >>

MarkersIn(s) == { k \in 1 .. Len(MarkerOrder) : Has(s, MarkerOrder[k].marker) }

FirstMarkerIn(s) == CHOOSE k \in MarkersIn(s) : \A j \in MarkersIn(s) : k <= j

\* The one role of a topic string, "none" when it holds no marker.
RoleOf(s) == IF MarkersIn(s) = {} THEN "none" ELSE MarkerOrder[FirstMarkerIn(s)].role

\* The text after the marker that gives s its role.
Remainder(s) == RemainderAfter(s, MarkerOrder[FirstMarkerIn(s)].marker)

HasRole(s, r) == RoleOf(s) = r

\* The strings of an announcement with role r, in the announcement's order.
WithRole(topics, r) ==
  LET Keep(s) == HasRole(s, r) IN SelectSeq(topics, Keep)

DescriptorField == [publisher |-> "publishers", subscriber |-> "subscribers"]

\* t has decoded its announcement into uuid and node and still holds them.
Decoded(t) ==
  op[t] = "onPublication" /\ pc[t] \in {"lookup", "store", "signal", "unlock"}

(***************************************************************************)
(* C11: a publisher or subscriber topic string whose remainder after the   *)
(* marker holds no "&types=" decodes to a descriptor whose topic name is   *)
(* the whole remainder and whose type list is empty.                       *)
(***************************************************************************)
C11_NoTypesMarkerEmptyTypes ==
  \A t \in Threads :
    Decoded(t) =>
      \A r \in DOMAIN DescriptorField :
        LET strs  == WithRole(arg[t].topics, r)
            descs == locals[t].node[DescriptorField[r]]
        IN  \A j \in 1 .. Len(strs) :
              ~ Has(Remainder(strs[j]), types_marker) =>
                /\ j <= Len(descs)
                /\ descs[j] = [topic |-> Remainder(strs[j]), types |-> <<>>]

(***************************************************************************)
(* C12: a publisher or subscriber topic string whose remainder holds       *)
(* "&types=" decodes to a descriptor whose topic name is the text between  *)
(* the marker and "&types=" and whose type list is the text after          *)
(* "&types=" split on every comma, every segment kept in order: k commas   *)
(* give k+1 type names, a trailing comma gives a last empty name, an empty *)
(* text gives the one empty name.                                          *)
(***************************************************************************)
C12_TypesSplitOnEveryComma ==
  \A t \in Threads :
    Decoded(t) =>
      \A r \in DOMAIN DescriptorField :
        LET strs  == WithRole(arg[t].topics, r)
            descs == locals[t].node[DescriptorField[r]]
        IN  \A j \in 1 .. Len(strs) :
              Has(Remainder(strs[j]), types_marker) =>
                /\ j <= Len(descs)
                /\ descs[j] =
                     [topic |-> TextBefore(Remainder(strs[j]), types_marker),
                      types |-> SplitOnCommas(
                                  RemainderAfter(Remainder(strs[j]), types_marker))]

\* The remainder of the one string of role r, or default when there is none.
ValueOf(topics, r, default) ==
  IF WithRole(topics, r) = <<>> THEN default ELSE Remainder(WithRole(topics, r)[1])

\* The descriptors the strings of role r decode to, one for each string.
DescriptorsOf(topics, r) ==
  LET strs == WithRole(topics, r)
  IN  [j \in 1 .. Len(strs) |->
         process_topic_info(strs[j], MarkerOrder[FirstMarkerIn(strs[j])].marker).topic]

TalkerRecord ==
  [name        |-> <<"t", "a", "l", "k", "e", "r">>,
   namespace_  |-> <<"/", "n", "s">>,
   publishers  |-> << [topic |-> <<"c", "h", "a", "t", "t", "e", "r">>,
                       types |-> << <<"s", "t", "d", "_", "m", "s", "g", "s", "/",
                                      "S", "t", "r", "i", "n", "g">> >>] >>,
   subscribers |-> <<>>]

(***************************************************************************)
(* C13: decoding an announcement with at most one identity string, one     *)
(* namespace string and one name string gives: the identity, the remainder *)
(* of the identity string; the name, the remainder of the name string, or  *)
(* "" without one; the namespace, the remainder of the namespace string,   *)
(* or "/" without one; the publishers and the subscribers, one descriptor  *)
(* for each publisher and subscriber string, in the order met, equal ones  *)
(* kept.  The announcement "_did_=abc123", "_nsp_=/ns", "_name_=talker",   *)
(* "_pub_=chatter&types=std_msgs/String" gives identity abc123 and the     *)
(* record (talker, /ns, [(chatter, [std_msgs/String])], []).               *)
(***************************************************************************)
C13_DecodedFields ==
  \A t \in Threads :
    LET topics == arg[t].topics
    IN  ( /\ Decoded(t)
          /\ \A r \in {"identity", "namespace", "name"} :
               Len(WithRole(topics, r)) <= 1 ) =>
          /\ locals[t].uuid = ValueOf(topics, "identity", <<>>)
          /\ locals[t].node.name = ValueOf(topics, "name", <<>>)
          /\ locals[t].node.namespace_ = ValueOf(topics, "namespace", <<"/">>)
          /\ locals[t].node.publishers = DescriptorsOf(topics, "publisher")
          /\ locals[t].node.subscribers = DescriptorsOf(topics, "subscriber")
          /\ topics = Ann_Talker =>
               locals[t].uuid = TalkerId /\ locals[t].node = TalkerRecord

\* The talker's announcement has been decoded and stored; elsewhere the same
\* publisher string has been decoded twice.
C13_Witness ==
  \E t \in Threads :
    /\ Decoded(t)
    /\ pc[t] = "unlock"
    /\ \/ /\ arg[t].topics = Ann_Talker
          /\ TalkerId \in DOMAIN discovered_nodes_
          /\ discovered_nodes_[TalkerId] = TalkerRecord
       \/ /\ arg[t].topics = << pub(<<"t">>), pub(<<"t">>) >>
          /\ Len(locals[t].node.publishers) = Len(arg[t].topics)

\* The last remainder among the strings of role r, or default.
LastValueOf(topics, r, default) ==
  LET strs == WithRole(topics, r)
  IN  IF strs = <<>> THEN default ELSE Remainder(strs[Len(strs)])

WithAnyRole(topics) ==
  LET Keep(s) == ~ HasRole(s, "none") IN SelectSeq(topics, Keep)

(***************************************************************************)
(* C16: every topic string has at most one role, that of the first marker  *)
(* it holds in the order identity, namespace, name, publisher, subscriber, *)
(* wherever the markers sit in the string: the decoded identity, namespace *)
(* and name come from the strings of that role only, there is one          *)
(* publisher or subscriber descriptor for each string of that role, and a  *)
(* string with none of the five markers changes nothing.                   *)
(***************************************************************************)
C16_FirstMarkerGivesTheRole ==
  \A t \in Threads :
    LET topics == arg[t].topics
    IN  Decoded(t) =>
          /\ locals[t].uuid = LastValueOf(topics, "identity", <<>>)
          /\ locals[t].node.namespace_ = LastValueOf(topics, "namespace", <<"/">>)
          /\ locals[t].node.name = LastValueOf(topics, "name", <<>>)
          /\ Len(locals[t].node.publishers) = Len(WithRole(topics, "publisher"))
          /\ Len(locals[t].node.subscribers) = Len(WithRole(topics, "subscriber"))
          /\ Decode(WithAnyRole(topics)) =
               [uuid |-> locals[t].uuid, node |-> locals[t].node]

\* A string holding the name marker before the identity marker has given the
\* identity only, beside a string without a marker; a string holding the
\* subscriber marker before the publisher marker has given a publisher.
C16_Witness ==
  \E t \in Threads :
    /\ Decoded(t)
    /\ \/ /\ arg[t].topics = << name(<<"n">>) \o did(<<"b">>), <<"x">> >>
          /\ locals[t].uuid = <<"b">>
          /\ locals[t].node = DefaultNode
       \/ /\ arg[t].topics = << sub(<<"u">>) \o pub(<<"t">>) >>
          /\ Len(locals[t].node.publishers) = 1
          /\ locals[t].node.subscribers = <<>>

\* A descriptor written back as a topic string of its kind.
Reencode(marker, desc) ==
  marker \o desc.topic \o types_marker \o JoinWithCommas(desc.types)

ReencodeAll(marker, descs) ==
  [j \in 1 .. Len(descs) |-> Reencode(marker, descs[j])]

\* No topic name and no type name of the descriptors holds "&types=" or ",".
PlainNames(descs) ==
  \A j \in 1 .. Len(descs) :
    LET Plain(x) == ~ Has(x, types_marker) /\ ~ Has(x, comma)
    IN  /\ Plain(descs[j].topic)
        /\ \A k \in 1 .. Len(descs[j].types) : Plain(descs[j].types[k])

(***************************************************************************)
(* C18: for an announcement with an identity string whose decoded topic    *)
(* names and type names hold neither "&types=" nor ",", writing every      *)
(* decoded publisher and subscriber descriptor back as its topic name,     *)
(* "&types=" and its type names joined by commas, and decoding that again, *)
(* gives the same publisher and subscriber lists.                          *)
(***************************************************************************)
C18_DescriptorRoundTrip ==
  \A t \in Threads :
    LET node  == locals[t].node
        again == Decode(ReencodeAll(dps_publisher_prefix, node.publishers)
                          \o ReencodeAll(dps_subscriber_prefix, node.subscribers)).node
    IN  ( /\ Decoded(t)
          /\ WithRole(arg[t].topics, "identity") # <<>>
          /\ PlainNames(node.publishers)
          /\ PlainNames(node.subscribers) ) =>
          /\ again.publishers = node.publishers
          /\ again.subscribers = node.subscribers

\* A publisher with the type list "T," (a trailing comma) and a subscriber with
\* two types have gone round.
C18_Witness ==
  \E t \in Threads :
    /\ Decoded(t)
    /\ \/ arg[t].topics = << did(<<"a">>), pub(typed(<<"t">>, <<"T", ",">>)) >>
       \/ arg[t].topics = << did(<<"a">>), sub(typed(<<"u">>, <<"T", ",", "U">>)) >>
    /\ PlainNames(locals[t].node.publishers)
    /\ PlainNames(locals[t].node.subscribers)
    /\ Len(locals[t].node.publishers) + Len(locals[t].node.subscribers) = 1

(***************************************************************************)
(* C14: no step removes an identity from the table, and a snapshot taken   *)
(* earlier is never longer than the table is now, so the length of         *)
(* successive snapshots never decreases.                                   *)
(***************************************************************************)
C14_IdentitiesKept == DOMAIN discovered_nodes_ \subseteq DOMAIN discovered_nodes_'

C14_SnapshotNotLonger ==
  \A t \in Threads :
    HasSnapshot(t) => Len(result[t].nodes) <= Cardinality(DOMAIN discovered_nodes_)

C14_NoEviction == [][C14_IdentitiesKept]_vars /\ []C14_SnapshotNotLonger

\* Identity a, once announced with content, has been announced again with
\* nothing but its identity: its record is the default one and it is still in
\* the table, which is longer than a snapshot a thread still holds.
C14_Witness ==
  \E t \in Threads :
    /\ HasSnapshot(t)
    /\ pc[t] = "done"
    /\ Len(result[t].nodes) = 1
    /\ result[t].nodes[1] # DefaultNode
    /\ Cardinality(DOMAIN discovered_nodes_) > 1
    /\ <<"a">> \in DOMAIN discovered_nodes_
    /\ discovered_nodes_[<<"a">>] = DefaultNode
    /\ lastAnn[<<"a">>] = AnnA_Bare

(***************************************************************************)
(* C15: announcements of one identity that race are serialised by the      *)
(* lock and the last writer wins: the call that holds the lock has stored  *)
(* its own decoding whatever was stored before, what it compared with is   *)
(* the table as it was when it took the lock (the outcome of the calls     *)
(* that locked before it), its trigger follows that comparison, and when   *)
(* the lock is free each record is the decoding of the call that locked    *)
(* last for its identity.                                                  *)
(***************************************************************************)
C15_LastWriterWins ==
  /\ \A t \in Threads :
       (Announced(t) /\ locals[t].uuid # <<>>) =>
         LET i == locals[t].uuid
         IN  /\ discovered_nodes_[i] = RecordOf(arg[t].topics)
             /\ pre = Committed
             /\ locals[t].old_node = PreRecord(i)
             /\ triggers[t] = IF RecordOf(arg[t].topics) = PreRecord(i) THEN 0 ELSE 1
  /\ mutex_ = {} => discovered_nodes_ = Committed

\* Two calls announce different records for identity a at the same time: one
\* has replaced the record of an earlier call and triggered, the other waits
\* for the lock.
C15_Witness ==
  \E t, u \in Threads :
    /\ t # u
    /\ Announced(t)
    /\ locals[t].uuid = <<"a">>
    /\ lastAnn[<<"a">>] # NoTopics
    /\ triggers[t] = 1
    /\ op[u] = "onPublication"
    /\ pc[u] = "lock"
    /\ IdOf(arg[u].topics) = <<"a">>
    /\ RecordOf(arg[u].topics) # RecordOf(arg[t].topics)

(***************************************************************************)
(* C19: the guard condition is triggered after the new record is stored    *)
(* and before the lock is released: a call has not triggered before it has *)
(* stored, it holds the lock alone from the store to the trigger, it has   *)
(* triggered when it is about to release the lock with a changed record,   *)
(* and no reader reads, or holds what it has just read, while a record is  *)
(* stored and its trigger is still to come.                                *)
(***************************************************************************)
C19_SignalBeforeVisibility ==
  /\ \A t \in Threads :
       op[t] = "onPublication" =>
         /\ pc[t] \in {"lock", "decode", "lookup", "store"} => triggers[t] = 0
         /\ pc[t] \in {"store", "signal"} => mutex_ = {t}
         /\ ( /\ Announced(t)
              /\ locals[t].uuid # <<>>
              /\ discovered_nodes_[locals[t].uuid] # PreRecord(locals[t].uuid) )
              => triggers[t] = 1
  /\ \A r \in Threads :
       (op[r] # "onPublication" /\ pc[r] \in {"read", "unlock"}) =>
         /\ discovered_nodes_ = Committed
         /\ \A t \in Threads :
              ~ (op[t] = "onPublication" /\ pc[t] \in {"lookup", "store", "signal"})

\* A call has stored a changed record and has not triggered yet; a reader is
\* waiting for the lock.
C19_Witness ==
  \E t, r \in Threads :
    /\ op[t] = "onPublication"
    /\ pc[t] = "signal"
    /\ discovered_nodes_[locals[t].uuid] # PreRecord(locals[t].uuid)
    /\ triggers[t] = 0
    /\ op[r] = "get_discovered_nodes"
    /\ pc[r] = "lock"

\* The announcements whose last identity string has an empty remainder.
EmptyIdentityAnnouncements ==
  { a \in Announcements :
      /\ WithRole(a, "identity") # <<>>
      /\ LastValueOf(a, "identity", <<>>) = <<>> }

(***************************************************************************)
(* C20: the empty string is never an identity in the table: an             *)
(* announcement whose identity string, or whose last identity string, has  *)
(* an empty remainder is dropped like one with no identity string, with no *)
(* change to the table and no trigger.                                     *)
(***************************************************************************)
C20_EmptyIdentityNeverStored ==
  /\ <<>> \notin DOMAIN discovered_nodes_
  /\ \A t \in Threads :
       (Announced(t) /\ arg[t].topics \in EmptyIdentityAnnouncements) =>
         /\ locals[t].uuid = <<>>
         /\ discovered_nodes_ = pre
         /\ triggers[t] = 0

\* An announcement with identity a and then an empty identity has been handled
\* on a table that holds records.
C20_Witness ==
  \E t \in Threads :
    /\ Announced(t)
    /\ arg[t].topics = Ann_EmptyId
    /\ arg[t].topics \in EmptyIdentityAnnouncements
    /\ discovered_nodes_ # <<>>
    /\ discovered_nodes_ = pre

(***************************************************************************)
(* Fair scheduling: a thread inside an operation goes on running, the      *)
(* trigger returns, and a thread waiting for the mutex is not passed over  *)
(* for ever.  Calls and the taking of results are left to the callers.     *)
(***************************************************************************)
InLockStep(t) ==
  \/ onPublication_Decode(t)
  \/ onPublication_Lookup(t)
  \/ onPublication_Store(t)
  \/ onPublication_Trigger(t)
  \/ onPublication_NoTrigger(t)
  \/ Read(t)
  \/ Unlock(t)

Fairness ==
  \A t \in 1 .. NumThreads : SF_vars(Lock(t)) /\ WF_vars(InLockStep(t))

\* The calls of the fair specification: an announcement with an identity, one
\* without, and the three reads.
LiveAnnouncements == { AnnA_Name, Ann_NoId }

Live_onPublication_Call(t) ==
  \E topics \in LiveAnnouncements :
    Call(t, "onPublication", [NoArg EXCEPT !.topics = topics])

Live_count_publishers_Call(t) ==
  Call(t, "count_publishers", [NoArg EXCEPT !.topic_name = <<"t">>])

Live_count_subscribers_Call(t) ==
  Call(t, "count_subscribers", [NoArg EXCEPT !.topic_name = <<"t">>])

NextLive ==
  \/ \E t \in Threads : Live_onPublication_Call(t)
  \/ \E t \in Threads : get_discovered_nodes_Call(t)
  \/ \E t \in Threads : Live_count_publishers_Call(t)
  \/ \E t \in Threads : Live_count_subscribers_Call(t)
  \/ \E t \in Threads : Lock(t)
  \/ \E t \in Threads : onPublication_Decode(t)
  \/ \E t \in Threads : onPublication_Lookup(t)
  \/ \E t \in Threads : onPublication_Store(t)
  \/ \E t \in Threads : onPublication_Trigger(t)
  \/ \E t \in Threads : onPublication_NoTrigger(t)
  \/ \E t \in Threads : Read(t)
  \/ \E t \in Threads : Unlock(t)
  \/ \E t \in Threads : Return(t)

FairSpec == Init /\ [][NextLive]_vars /\ Fairness

Started(t) == pc[t] \in {"lock"} \cup InLock

\* The mutex is held by a thread inside an operation and by no other, and
\* whenever a call is under way some call can take a step.
C17_LockNeverLeftHeld ==
  /\ \A t \in Threads : t \in mutex_ <=> pc[t] \in InLock
  /\ (\E t \in Threads : Started(t)) =>
       \E t \in Threads : ENABLED (Lock(t) \/ InLockStep(t))

=============================================================================
